---- MODULE Spec2Model ----
(***************************************************************************)
(* ResilientAPIClient of src/index.js: the retrying fetcher                *)
(* (fetchWithRetries), the throttle, the backoff policy and the paginator   *)
(* (fetchAllPatients), run by one caller against a scripted HTTP server.    *)
(* Times are in milliseconds.                                               *)
(***************************************************************************)
EXTENDS Integers, Sequences, FiniteSets, TLC

\* ---------------------------------------------------------------- bounds
MaxPages == 3
MaxFail == 2
MaxJitter == 999
StartTime == 100000
MaxRequests == 3
MaxReturns == 3
Horizon == 1000
MaxAttempt == 7

\* ------------------------------------------------------ program constants
DefaultMaxRetries == 5
DefaultInitialDelay == 1000
DefaultRequestsPerSecond == 2
DefaultPageSize == 10
MaxBackoff == 30000
MsPerSecond == 1000

VARIABLES
    config,          \* this.baseURL .. this.pageSize, set by the constructor
    lastRequestTime, \* this.lastRequestTime
    now,             \* Date.now()
    server,          \* the remote API: what it answers to each request
    ppc,             \* position of fetchAllPatients
    allPatients, page, moreData,
    result,          \* how the promise of fetchAllPatients settled
    fpc,             \* position of fetchWithRetries
    url, attempt,    \* its arguments
    response,        \* the response of the last physical request
    error,           \* the error thrown / caught in fetchWithRetries
    fetchResult,     \* the value fetchWithRetries resolved with
    physRequests,    \* physical GETs of the current logical fetch
    backoffWaits,    \* sleeps on a backoff delay in the current logical fetch
    pageRequests,    \* logical fetches (calls of fetchWithRetries) issued
    events,          \* throttle / GET / backoff of the current logical fetch, in order
    thr,             \* callers of throttle() on their own, and when they returned
    fn               \* a call of a pure function: its arguments and its value

vars == <<config, lastRequestTime, now, server, ppc, allPatients, page,
          moreData, result, fpc, url, attempt, response, error, fetchResult,
          physRequests, backoffWaits, pageRequests, events, thr, fn>>

clientVars == <<config, server, thr, fn>>
pagerVars == <<ppc, allPatients, page, moreData, result, pageRequests>>

\* ------------------------------------------------------------- JS values
Min(a, b) == IF a < b THEN a ELSE b

RECURSIVE Pow2(_)
Pow2(n) == IF n = 0 THEN 1 ELSE 2 * Pow2(n - 1)

\* options.x || dflt : 0 stands for an absent (or falsy) option
OrDefault(opt, dflt) == IF opt = 0 THEN dflt ELSE opt

NoError == [name |-> "none", message |-> "", status |-> 0]
AuthMessage == "Authentication failed. Check API key."
AuthError == [name |-> "Error", message |-> AuthMessage, status |-> 0]
\* `Request failed with status ${response.status}`
StatusError(st) == [name |-> "Error", message |-> "Request failed with status", status |-> st]
\* what fetch() rejects with on a connection reset or timeout
NetworkError == [name |-> "TypeError", message |-> "fetch failed", status |-> 0]
\* calling a property that is undefined
NotAFunction(m) == [name |-> "TypeError", message |-> m \o " is not a function", status |-> 0]

NoData == [type |-> "none", items |-> <<>>, hasNext |-> "absent"]
NoResponse == [status |-> 0, body |-> NoData]
NoResult == [kind |-> "none", value |-> <<>>, error |-> NoError]

\* no caller of throttle() on its own, no call of a pure function
NoCallers == [callers |-> {}]
NoCall == [name |-> "none"]

\* one step of a logical fetch: what it was, with which attempt number, the
\* delay slept (a backoff) and the time it ended
Event(ev, att, delay, t) == [ev |-> ev, attempt |-> att, delay |-> delay, at |-> t]

\* the methods of class ResilientAPIClient
Methods == {"fetchWithRetries", "fetchAllPatients", "getBackoffDelay", "throttle", "sleep"}

\* ------------------------------------------------------------ the server
\* A network failure is written as status 0 (no response).
FailKinds == {0, 429, 503, 401, 403, 404}

\* the records the collection holds on page p
Records(p, n) == [j \in 1..n |-> <<p, j>>]

\* the page lengths tried: every length of a small page, three of a large one
PageLens(ps) == IF ps <= 3 THEN 0..ps ELSE {0, ps - 3, ps}

\* A server: the length of each page, the shape of the payload (a bare array,
\* or an object with the array and hasNext, false on page hasNextAt), and the
\* failures it answers with on page failPage: failCount times, or for ever.
Servers(ps) ==
    { [lens |-> l, form |-> f, hasNextAt |-> h,
       failPage |-> fp, failKind |-> fk, failCount |-> fc, failForever |-> ff] :
         l \in [1..MaxPages -> PageLens(ps)],
         f \in {"array", "object"}, h \in 0..MaxPages,
         fp \in 1..MaxPages, fk \in FailKinds, fc \in 0..MaxFail, ff \in BOOLEAN }

\* one representative of each server behaviour
Canonical(s) ==
    /\ s.form = "array" => s.hasNextAt = 0
    /\ s.failForever => s.failCount = 0
    /\ (s.failCount = 0 /\ ~s.failForever) => (s.failPage = 1 /\ s.failKind = 429)

PageLen(s, p) == IF p \in 1..MaxPages THEN s.lens[p] ELSE 0

Payload(s, p) ==
    IF s.form = "array"
    THEN [type |-> "array", items |-> Records(p, PageLen(s, p)), hasNext |-> "absent"]
    ELSE [type |-> "object", items |-> Records(p, PageLen(s, p)),
          hasNext |-> IF p = s.hasNextAt THEN "false" ELSE "true"]

Fails(s, p, i) == p = s.failPage /\ (s.failForever \/ i < s.failCount)

\* the answer to the i-th physical request (from 0) for page p
Transport(s, p, i) ==
    IF Fails(s, p, i) THEN [status |-> s.failKind, body |-> NoData]
    ELSE [status |-> 200, body |-> Payload(s, p)]

\* --------------------------------------------------------- the constructor
\* the options tried: each absent (0), maxRetries and pageSize also given
Options ==
    [maxRetries : {0, 1}, initialDelay : {0},
     requestsPerSecond : {0}, pageSize : {0, 2}]

Constructor(options) ==
    [baseURL |-> "baseURL", apiKey |-> "apiKey",
     maxRetries |-> OrDefault(options.maxRetries, DefaultMaxRetries),
     initialDelay |-> OrDefault(options.initialDelay, DefaultInitialDelay),
     requestsPerSecond |-> OrDefault(options.requestsPerSecond, DefaultRequestsPerSecond),
     pageSize |-> OrDefault(options.pageSize, DefaultPageSize)]

Init ==
    /\ \E o \in Options : config = Constructor(o)
    /\ server \in { s \in Servers(config.pageSize) : Canonical(s) }
    /\ lastRequestTime = 0
    /\ now = StartTime
    /\ ppc = "idle"
    /\ allPatients = <<>> /\ page = 0 /\ moreData = FALSE
    /\ result = NoResult
    /\ fpc = "idle"
    /\ url = [page |-> 0, limit |-> 0] /\ attempt = 0
    /\ response = NoResponse /\ error = NoError /\ fetchResult = NoData
    /\ physRequests = 0 /\ backoffWaits = 0 /\ pageRequests = 0
    /\ events = <<>>
    /\ thr = NoCallers
    /\ fn = NoCall

\* ------------------------------------------------------ backoff, throttle
\* a backoff that grows with 2 * attempt, not with 2 ** attempt
getBackoffDelayLinear(att, jitter) ==
    Min(config.initialDelay * 2 * att + jitter, MaxBackoff)

\* jitter stands for Math.random() * 1000
getBackoffDelay(att, jitter) ==
    Min(config.initialDelay * Pow2(att) + jitter, MaxBackoff)

Jitters == {0, MaxJitter}

\* a throttle that sleeps for the time elapsed, not for the time left
ThrottleWaitElapsed(t) ==
    LET minInterval == MsPerSecond \div config.requestsPerSecond
        timeSinceLastRequest == t - lastRequestTime
    IN  IF timeSinceLastRequest < minInterval
        THEN timeSinceLastRequest
        ELSE 0

\* a throttle that takes requestsPerSecond itself for the interval in ms
ThrottleWaitNoInterval(t) ==
    LET minInterval == config.requestsPerSecond
        timeSinceLastRequest == t - lastRequestTime
    IN  IF timeSinceLastRequest < minInterval
        THEN minInterval - timeSinceLastRequest
        ELSE 0

\* how long throttle() sleeps at time t
ThrottleWait(t) ==
    LET minInterval == MsPerSecond \div config.requestsPerSecond
        timeSinceLastRequest == t - lastRequestTime
    IN  IF timeSinceLastRequest < minInterval
        THEN minInterval - timeSinceLastRequest
        ELSE 0

\* await this.throttle(), first statement of fetchWithRetries
throttle ==
    /\ fpc = "throttle"
    /\ now' = now + ThrottleWait(now)
    /\ lastRequestTime' = now'
    /\ fpc' = "get"
    /\ events' = Append(events, Event("throttle", attempt, 0, now'))
    /\ UNCHANGED <<clientVars, pagerVars, url, attempt, response, error,
                   fetchResult, physRequests, backoffWaits>>

\* ------------------------------------------------------- fetchWithRetries
\* a retry that calls the method by its name
RetryMethodByName == "fetchWithRetries"

\* the method the retry branches call: this.fetchWithRetry(url, attempt + 1)
RetryMethod == "fetchWithRetry"

IsAuthStatus(st) == st = 401 \/ st = 403
ResponseOk(st) == st >= 200 /\ st <= 299

\* a test for another text than the one the auth branch throws
IsAuthErrorOtherText(e) == e.message = "Unauthorized"

\* error.message.includes('Authentication failed')
IsAuthError(e) == e.message = AuthMessage

\* await fetch(url, ...): one physical request
HttpGet ==
    /\ fpc = "get"
    /\ physRequests < MaxRequests
    /\ LET r == Transport(server, url.page, physRequests)
       IN  IF r.status = 0
           THEN /\ response' = NoResponse
                /\ error' = NetworkError
                /\ fpc' = "catch"
           ELSE /\ response' = r
                /\ error' = error
                /\ fpc' = "classify"
    /\ physRequests' = physRequests + 1
    /\ events' = Append(events, Event("GET", attempt, 0, now))
    /\ UNCHANGED <<clientVars, pagerVars, lastRequestTime, now, url, attempt,
                   fetchResult, backoffWaits>>

\* a backoff that takes the end of its sleep as the time of the last request
BackoffThenRetryStamps ==
    /\ \E jitter \in Jitters : now' = now + getBackoffDelay(attempt, jitter)
    /\ backoffWaits' = backoffWaits + 1
    /\ events' = Append(events, Event("backoff", attempt, now' - now, now'))
    /\ lastRequestTime' = now'
    /\ IF RetryMethod \in Methods
       THEN /\ fpc' = "throttle"
            /\ attempt' = attempt + 1
            /\ error' = error
       ELSE /\ fpc' = "catch"
            /\ attempt' = attempt
            /\ error' = NotAFunction(RetryMethod)
    /\ UNCHANGED <<clientVars, pagerVars, url, response, fetchResult, physRequests>>

\* await this.sleep(getBackoffDelay(attempt)); return this.<RetryMethod>(url, attempt + 1)
\* from inside the try block: a call that throws lands in the catch block
BackoffThenRetry ==
    /\ \E jitter \in Jitters : now' = now + getBackoffDelay(attempt, jitter)
    /\ backoffWaits' = backoffWaits + 1
    /\ events' = Append(events, Event("backoff", attempt, now' - now, now'))
    /\ IF RetryMethod \in Methods
       THEN /\ fpc' = "throttle"
            /\ attempt' = attempt + 1
            /\ error' = error
       ELSE /\ fpc' = "catch"
            /\ attempt' = attempt
            /\ error' = NotAFunction(RetryMethod)
    /\ UNCHANGED <<clientVars, pagerVars, lastRequestTime, url, response,
                   fetchResult, physRequests>>

\* if (response.status === 429)
RateLimited ==
    /\ fpc = "classify"
    /\ response.status = 429
    /\ BackoffThenRetry

\* if (response.status >= 500 && attempt < this.maxRetries)
ServerError ==
    /\ fpc = "classify"
    /\ response.status # 429
    /\ response.status >= 500 /\ attempt < config.maxRetries
    /\ BackoffThenRetry

Retried(st) == st = 429 \/ (st >= 500 /\ attempt < config.maxRetries)

\* if (response.status === 401 || response.status === 403) throw
AuthFailed ==
    /\ fpc = "classify"
    /\ ~Retried(response.status)
    /\ IsAuthStatus(response.status)
    /\ error' = AuthError
    /\ fpc' = "catch"
    /\ UNCHANGED <<clientVars, pagerVars, lastRequestTime, now, url, attempt,
                   response, fetchResult, physRequests, backoffWaits, events>>

\* if (!response.ok) throw
NotOk ==
    /\ fpc = "classify"
    /\ ~Retried(response.status)
    /\ ~IsAuthStatus(response.status)
    /\ ~ResponseOk(response.status)
    /\ error' = StatusError(response.status)
    /\ fpc' = "catch"
    /\ UNCHANGED <<clientVars, pagerVars, lastRequestTime, now, url, attempt,
                   response, fetchResult, physRequests, backoffWaits, events>>

\* return await response.json()
Success ==
    /\ fpc = "classify"
    /\ ~Retried(response.status)
    /\ ~IsAuthStatus(response.status)
    /\ ResponseOk(response.status)
    /\ fetchResult' = response.body
    /\ fpc' = "resolved"
    /\ UNCHANGED <<clientVars, pagerVars, lastRequestTime, now, url, attempt,
                   response, error, physRequests, backoffWaits, events>>

\* what the catch block does with the error: rethrow it, or sleep and retry
CatchDecision(e, att) ==
    IF IsAuthError(e) THEN "throw"
    ELSE IF att < config.maxRetries THEN "retry"
    ELSE "throw"

\* catch (error) { ... }: an error thrown from here rejects the promise
Catch ==
    /\ fpc = "catch"
    /\ IF CatchDecision(error, attempt) = "retry"
       THEN /\ \E jitter \in Jitters : now' = now + getBackoffDelay(attempt, jitter)
            /\ backoffWaits' = backoffWaits + 1
            /\ events' = Append(events, Event("backoff", attempt, now' - now, now'))
            /\ IF RetryMethod \in Methods
               THEN /\ fpc' = "throttle"
                    /\ attempt' = attempt + 1
                    /\ error' = error
               ELSE /\ fpc' = "rejected"
                    /\ attempt' = attempt
                    /\ error' = NotAFunction(RetryMethod)
       ELSE /\ fpc' = "rejected"
            /\ UNCHANGED <<now, backoffWaits, attempt, error, events>>
    /\ UNCHANGED <<clientVars, pagerVars, lastRequestTime, url, response,
                   fetchResult, physRequests>>

\* ------------------------------------------------------- fetchAllPatients
\* const patients = data || []
Patients(data) == IF data.type = "none" THEN <<>> ELSE data.items

\* Array.isArray(patients)
IsArray(data) == data.type = "array" \/ data.type = "none"

\* moreData after lines 94-98: a full page, and no hasNext === false
MoreDataAfter(data) ==
    IF data.hasNext = "false" THEN FALSE
    ELSE Len(Patients(data)) = config.pageSize

Returned(acc) == [kind |-> "value", value |-> acc, error |-> NoError]
ReturnedUndefined == [kind |-> "undefined", value |-> <<>>, error |-> NoError]
Thrown(e) == [kind |-> "error", value |-> <<>>, error |-> e]

\* the statements after the try/catch, inside the while body: return allPatients
AfterTry(acc) == Returned(acc)

\* the end of the function, reached when the loop is left: no return value
AfterLoop(acc) == ReturnedUndefined

\* a catch block that leaves the loop, as the empty-page branch does
PageCatchBreak(e, acc) == AfterLoop(acc)

\* a catch block that lets authentication errors through
PageCatchRethrowAuth(e, acc) == IF e.message = AuthMessage THEN Thrown(e) ELSE AfterTry(acc)

\* the catch block of the page's try: log, moreData = false, go on after the try
PageCatch(e, acc) == AfterTry(acc)

\* fetchAllPatients() is called
fetchAllPatients ==
    /\ ppc = "idle"
    /\ allPatients' = <<>>
    /\ page' = 1
    /\ moreData' = TRUE
    /\ ppc' = "loop"
    /\ UNCHANGED <<clientVars, lastRequestTime, now, result, pageRequests, fpc,
                   url, attempt, response, error, fetchResult, physRequests,
                   backoffWaits, events>>

\* a url that asks for the page after p
PageUrlAfter(p) == [page |-> p + 1, limit |-> config.pageSize]

\* `${this.baseURL}?page=${page}&limit=${this.pageSize}`
PageUrl(p) == [page |-> p, limit |-> config.pageSize]

\* a first call that starts at attempt 1
FetchCallFromOne(u) == [url |-> u, attempt |-> 1]

\* this.fetchWithRetries(url): attempt takes its default, 0
FetchCall(u) == [url |-> u, attempt |-> 0]

\* while (moreData) { try { ... await this.fetchWithRetries(url)
WhileMoreData ==
    /\ ppc = "loop"
    /\ IF moreData
       THEN /\ url' = FetchCall(PageUrl(page)).url
            /\ attempt' = FetchCall(PageUrl(page)).attempt
            /\ fpc' = "throttle"
            /\ physRequests' = 0 /\ backoffWaits' = 0
            /\ events' = <<>>
            /\ pageRequests' = pageRequests + 1
            /\ ppc' = "await"
            /\ result' = result
       ELSE /\ ppc' = "returned"
            /\ result' = AfterLoop(allPatients)
            /\ UNCHANGED <<url, attempt, fpc, physRequests, backoffWaits,
                           pageRequests, events>>
    /\ UNCHANGED <<clientVars, lastRequestTime, now, allPatients, page, moreData,
                   response, error, fetchResult>>

\* the fetch resolved with a non-empty array: push, decide, page++, then
\* the statements after the try
AppendPage ==
    /\ ppc = "await" /\ fpc = "resolved"
    /\ IsArray(fetchResult) /\ Len(Patients(fetchResult)) > 0
    /\ allPatients' = allPatients \o Patients(fetchResult)
    /\ moreData' = MoreDataAfter(fetchResult)
    /\ page' = page + 1
    /\ result' = AfterTry(allPatients')
    /\ ppc' = "returned"
    /\ UNCHANGED <<clientVars, lastRequestTime, now, pageRequests, fpc, url,
                   attempt, response, error, fetchResult, physRequests,
                   backoffWaits, events>>

\* else { moreData = false; break; }
NoMoreData ==
    /\ ppc = "await" /\ fpc = "resolved"
    /\ ~(IsArray(fetchResult) /\ Len(Patients(fetchResult)) > 0)
    /\ moreData' = FALSE
    /\ result' = AfterLoop(allPatients)
    /\ ppc' = "returned"
    /\ UNCHANGED <<clientVars, lastRequestTime, now, allPatients, page,
                   pageRequests, fpc, url, attempt, response, error, fetchResult,
                   physRequests, backoffWaits, events>>

\* catch (error) { console.error(...); moreData = false; }
CatchPageError ==
    /\ ppc = "await" /\ fpc = "rejected"
    /\ moreData' = FALSE
    /\ result' = PageCatch(error, allPatients)
    /\ ppc' = IF result'.kind = "error" THEN "threw" ELSE "returned"
    /\ UNCHANGED <<clientVars, lastRequestTime, now, allPatients, page,
                   pageRequests, fpc, url, attempt, response, error, fetchResult,
                   physRequests, backoffWaits, events>>

Next ==
    \/ fetchAllPatients
    \/ WhileMoreData
    \/ throttle
    \/ HttpGet
    \/ RateLimited
    \/ ServerError
    \/ AuthFailed
    \/ NotOk
    \/ Success
    \/ Catch
    \/ AppendPage
    \/ NoMoreData
    \/ CatchPageError

Spec == Init /\ [][Next]_vars

\* every wait and every HTTP request completes: no step stays pending for ever
FairSpec == Spec /\ WF_vars(Next)

\* ------------------------------------------- throttle() called on its own
\* Callers call throttle() again and again while time passes; a caller runs
\* without interruption up to its await, and a timer may fire late.
TimeSteps == {100, 250}

ThrottleOptions ==
    [maxRetries : {0}, initialDelay : {0}, requestsPerSecond : {0, 4}, pageSize : {0}]

ThrottleCallers(cs) ==
    [callers |-> cs,
     pc |-> [c \in cs |-> "idle"],       \* idle, or sleeping in throttle()
     wakeAt |-> [c \in cs |-> 0],        \* when its sleep ends
     read |-> [c \in cs |-> 0],          \* the lastRequestTime it read
     stale |-> [c \in cs |-> FALSE],     \* lastRequestTime was updated since
     waited |-> [c \in cs |-> 0],        \* the waitTime it computed
     returns |-> 0,                      \* returns of throttle() so far
     lastReturn |-> 0,                   \* the time of the last return
     lastRead |-> 0,                     \* what the last returner had read
     gap |-> 0,                          \* between the last two returns
     gapWaited |-> 0,                    \* the waitTime of the last returner
     gapStale |-> FALSE,                 \* the last returner's read was stale
     gapSameRead |-> FALSE]              \* the last two returners read the same

\* a server with an empty collection and no failures
QuietServer ==
    [lens |-> [p \in 1..MaxPages |-> 0], form |-> "array", hasNextAt |-> 0,
     failPage |-> 1, failKind |-> 429, failCount |-> 0, failForever |-> FALSE]

\* a client just constructed, on which fetchAllPatients is not called
IdleClient ==
    /\ server = QuietServer
    /\ lastRequestTime = 0
    /\ now = StartTime
    /\ ppc = "idle"
    /\ allPatients = <<>> /\ page = 0 /\ moreData = FALSE
    /\ result = NoResult
    /\ fpc = "idle"
    /\ url = [page |-> 0, limit |-> 0] /\ attempt = 0
    /\ response = NoResponse /\ error = NoError /\ fetchResult = NoData
    /\ physRequests = 0 /\ backoffWaits = 0 /\ pageRequests = 0
    /\ events = <<>>

ThrottleInit(cs) ==
    /\ \E o \in ThrottleOptions : config = Constructor(o)
    /\ IdleClient
    /\ thr = ThrottleCallers(cs)
    /\ fn = NoCall

fetchVars == <<server, ppc, allPatients, page, moreData, result, fpc, url,
               attempt, response, error, fetchResult, physRequests,
               backoffWaits, pageRequests, events, fn>>

\* caller c returns from throttle() at time t
Returns(c, t, rd, st, w) ==
    [thr EXCEPT !.pc[c] = "idle",
                !.stale = [d \in thr.callers |-> IF d = c THEN FALSE ELSE TRUE],
                !.returns = thr.returns + 1,
                !.lastReturn = t,
                !.lastRead = rd,
                !.gap = t - thr.lastReturn,
                !.gapWaited = w,
                !.gapStale = st,
                !.gapSameRead = (rd = thr.lastRead)]

\* throttle(), lines 120-126, and line 129 when there is nothing to wait for
throttleEnter(c) ==
    /\ thr.pc[c] = "idle"
    /\ thr.returns < MaxReturns
    /\ LET waitTime == ThrottleWait(now)
       IN  IF waitTime > 0
           THEN /\ thr' = [thr EXCEPT !.pc[c] = "sleeping",
                                      !.wakeAt[c] = now + waitTime,
                                      !.read[c] = lastRequestTime,
                                      !.waited[c] = waitTime,
                                      !.stale[c] = FALSE]
                /\ lastRequestTime' = lastRequestTime
           ELSE /\ thr' = Returns(c, now, lastRequestTime, FALSE, 0)
                /\ lastRequestTime' = now
    /\ UNCHANGED <<config, now, fetchVars>>

\* the sleep of line 126 is over: this.lastRequestTime = Date.now()
throttleResume(c) ==
    /\ thr.pc[c] = "sleeping"
    /\ now >= thr.wakeAt[c]
    /\ lastRequestTime' = now
    /\ thr' = Returns(c, now, thr.read[c], thr.stale[c], thr.waited[c])
    /\ UNCHANGED <<config, now, fetchVars>>

\* time passes
Tick ==
    /\ \E d \in TimeSteps :
         /\ now + d <= StartTime + Horizon
         /\ now' = now + d
    /\ UNCHANGED <<config, lastRequestTime, thr, fetchVars>>

ThrottleEnters == \E c \in thr.callers : throttleEnter(c)
ThrottleResumes == \E c \in thr.callers : throttleResume(c)

ThrottleNext ==
    \/ ThrottleEnters
    \/ ThrottleResumes
    \/ Tick

\* one caller of throttle()
SpecThrottle == ThrottleInit({1}) /\ [][ThrottleNext]_vars

\* two callers of throttle() on the same client
SpecConcurrent == ThrottleInit({1, 2}) /\ [][ThrottleNext]_vars

\* ------------------------------------------------- pure functions, called
\* a call of f(a, b) that has not run yet, and the call once it returned v
Call(f, a, b) == [name |-> f, a |-> a, b |-> b, done |-> FALSE, out |-> 0]
Done(call, v) == [call EXCEPT !.done = TRUE, !.out = v]

BackoffOptions ==
    [maxRetries : {0}, initialDelay : {0, 1, 500, 4000}, requestsPerSecond : {0},
     pageSize : {0}]

JitterSamples == {0, 1, MaxJitter \div 2, MaxJitter}

BackoffInit ==
    /\ \E o \in BackoffOptions : config = Constructor(o)
    /\ IdleClient
    /\ thr = NoCallers
    /\ fn \in { Call("getBackoffDelay", att, j) : att \in 0..MaxAttempt, j \in JitterSamples }

\* getBackoffDelay(attempt) with Math.random() * 1000 = jitter
CallBackoff ==
    /\ fn.name = "getBackoffDelay" /\ ~fn.done
    /\ fn' = Done(fn, getBackoffDelay(fn.a, fn.b))
    /\ UNCHANGED <<config, lastRequestTime, now, thr, server, ppc, allPatients,
                   page, moreData, result, fpc, url, attempt, response, error,
                   fetchResult, physRequests, backoffWaits, pageRequests, events>>

SpecBackoff == BackoffInit /\ [][CallBackoff]_vars

\* null is written as a negative number
IsNull(x) == x < 0

\* RiskAssessment.calculateBloodPressureRisk; -1 stands for undefined
calculateBloodPressureRisk(systolic, diastolic) ==
    IF IsNull(systolic) \/ IsNull(diastolic) THEN 0
    ELSE IF systolic < 120 /\ diastolic < 80 THEN 0
    ELSE IF systolic < 130 /\ diastolic < 80 THEN 1
    ELSE IF systolic < 140 \/ diastolic < 90 THEN 2
    ELSE IF systolic >= 140 \/ diastolic >= 90 THEN 3
    ELSE -1

\* the readings tried, around the thresholds of the tiers
Systolics == {-1, 90, 119, 120, 129, 130, 139, 140, 141, 180}
Diastolics == {-1, 60, 79, 80, 89, 90, 91, 120}

RiskInit ==
    /\ config = Constructor([maxRetries |-> 0, initialDelay |-> 0,
                             requestsPerSecond |-> 0, pageSize |-> 0])
    /\ IdleClient
    /\ thr = NoCallers
    /\ fn \in { Call("calculateBloodPressureRisk", sy, di) :
                  sy \in Systolics, di \in Diastolics }

CallRisk ==
    /\ fn.name = "calculateBloodPressureRisk" /\ ~fn.done
    /\ fn' = Done(fn, calculateBloodPressureRisk(fn.a, fn.b))
    /\ UNCHANGED <<config, lastRequestTime, now, thr, server, ppc, allPatients,
                   page, moreData, result, fpc, url, attempt, response, error,
                   fetchResult, physRequests, backoffWaits, pageRequests, events>>

SpecRisk == RiskInit /\ [][CallRisk]_vars

\* =================================================================== claims
Settled == ppc = "returned" \/ ppc = "threw"
FetchSettled == fpc = "resolved" \/ fpc = "rejected"
NoFailures == server.failCount = 0 /\ ~server.failForever

RECURSIVE ConcatPages(_, _)
\* the records of pages 1..n of server s, in page order
ConcatPages(s, n) ==
    IF n = 0 THEN <<>> ELSE ConcatPages(s, n - 1) \o Records(n, PageLen(s, n))

\* the first page of the collection that is not full
StopPage ==
    CHOOSE p \in 1..(MaxPages + 1) :
        /\ PageLen(server, p) < config.pageSize
        /\ \A q \in 1..(p - 1) : PageLen(server, q) = config.pageSize

\* C1: on a server that answers every request with a bare array, fetchAll
\* requests pages 1, 2, .. up to the first page that is not full (here a
\* non-empty one) and returns the records of all of them, in order.
C1_FetchAllFollowsPages ==
    (Settled /\ NoFailures /\ server.form = "array" /\ PageLen(server, StopPage) > 0)
        => /\ result = Returned(ConcatPages(server, StopPage))
           /\ pageRequests = StopPage

\* C2: when page N is an object with a non-empty array of records and
\* hasNext = false (the pages before it full), fetchAll returns the records
\* of pages 1..N and asks for no page N + 1.
C2_HasNextFalseStops ==
    (/\ Settled /\ NoFailures /\ server.form = "object"
     /\ server.hasNextAt \in 1..MaxPages
     /\ PageLen(server, server.hasNextAt) > 0
     /\ \A q \in 1..(server.hasNextAt - 1) : PageLen(server, q) = config.pageSize)
        => /\ result = Returned(ConcatPages(server, server.hasNextAt))
           /\ pageRequests = server.hasNextAt

\* the fetch of page K was rejected with an error that is no authentication error
PageFetchFailed == fpc = "rejected" /\ ~IsAuthError(error)

\* C3: when the fetch of page K fails with a non-authentication error,
\* fetchAll asks for no further page and returns the records of pages
\* 1..K-1; the error does not leave fetchAll.
C3_ErrorReturnsPartial ==
    PageFetchFailed =>
        /\ pageRequests = page
        /\ ppc \in {"await", "returned"}
        /\ ppc = "returned" => result = Returned(ConcatPages(server, page - 1))

C3_Witness ==
    /\ PageFetchFailed /\ ppc = "returned" /\ page = 1
    /\ result = Returned(<<>>)
    /\ server.failPage = 1 /\ server.failKind = 503

\* C4: every settled fetchAll returned the accumulator, also after an
\* empty page: never an error, never undefined.
C4_AlwaysReturnsAccumulator ==
    Settled => result = Returned(allPatients)

\* C5 (as claimed): an authentication error of the fetch of a page leaves
\* fetchAll as an error.
C5_AuthErrorPropagates ==
    (Settled /\ fpc = "rejected" /\ IsAuthError(error)) => result = Thrown(error)

\* C5 (amended): an authentication error of the fetch of a page is caught
\* by the page's catch like any other error: fetchAll returns the
\* accumulator and no error leaves it.
C5_AuthErrorSwallowed ==
    (fpc = "rejected" /\ IsAuthError(error)) =>
        /\ ppc \in {"await", "returned"}
        /\ ppc = "returned" => result = Returned(allPatients)

C5_Witness ==
    /\ fpc = "rejected" /\ IsAuthError(error) /\ ppc = "returned"
    /\ response.status = 401
    /\ result = Returned(allPatients)

\* the server answers the fetch under way with kind k: n times, then 200
FailsTimes(k, n) ==
    /\ server.failKind = k /\ server.failPage = url.page
    /\ ~server.failForever /\ server.failCount = n
\* the server answers every request of the fetch under way with kind k
FailsAlways(k) ==
    server.failKind = k /\ server.failPage = url.page /\ server.failForever

\* C6: a transport that answers 429 k times and then 200 makes fetch return
\* the payload after k backoff waits and k + 1 requests, whatever maxRetries.
C6_RateLimitAlwaysRetried ==
    \A k \in 1..MaxFail :
        (FetchSettled /\ FailsTimes(429, k)) =>
            /\ fpc = "resolved"
            /\ fetchResult = Payload(server, url.page)
            /\ backoffWaits = k
            /\ physRequests = k + 1

\* C7: a transport that always answers 503 makes fetch raise an error with
\* status 503 after maxRetries + 1 requests and maxRetries backoff waits.
C7_ServerErrorExhaustsRetries ==
    (FetchSettled /\ FailsAlways(503)) =>
        /\ fpc = "rejected"
        /\ error = StatusError(503)
        /\ physRequests = config.maxRetries + 1
        /\ backoffWaits = config.maxRetries

\* C8: once an attempt received 401 or 403, fetch waits on no backoff and
\* issues no request any more, and the error it raises is the
\* authentication error.
C8_AuthFailsFast ==
    [][(IsAuthStatus(response.status) /\ fpc \in {"classify", "catch"}) =>
          /\ backoffWaits' = backoffWaits
          /\ physRequests' = physRequests
          /\ fpc' \in {"catch", "rejected"}
          /\ error' = AuthError]_vars

C8_Witness ==
    /\ fpc = "rejected" /\ IsAuthStatus(response.status) /\ error = AuthError
    /\ physRequests = 1 /\ backoffWaits = 0
    /\ server.failForever /\ server.failKind = 401

\* C9: a transport that fails on every attempt makes fetch issue
\* maxRetries + 1 requests and then raise the transport error itself.
C9_TransportErrorPropagated ==
    (FetchSettled /\ FailsAlways(0)) =>
        /\ fpc = "rejected"
        /\ error = NetworkError
        /\ physRequests = config.maxRetries + 1
        /\ backoffWaits = config.maxRetries

\* C10: a 404 ends fetch at once: the error with the status is raised with
\* no backoff wait and no further request.
C10_OtherStatusTerminal ==
    (FetchSettled /\ response.status = 404) =>
        /\ fpc = "rejected"
        /\ error = StatusError(404)
        /\ backoffWaits = physRequests - 1

\* C13: under FairSpec every fetchAll settles, whatever the server answers
\* to each request, a server that answers 429 to every request included.
C13_FetchAllTerminates == <>Settled

C13_Witness ==
    /\ Settled
    /\ server.failForever /\ server.failKind = 429 /\ server.failPage = 1
    /\ physRequests >= 1

EventAt(i) == <<"throttle", "GET", "backoff">>[((i - 1) % 3) + 1]

\* C15: the events of a logical fetch come in the order
\* throttle, GET, (backoff, throttle, GET)*, and a settled fetch ends on a GET.
C15_EventOrder ==
    /\ \A i \in 1..Len(events) : events[i].ev = EventAt(i)
    /\ FetchSettled => Len(events) % 3 = 2

\* the GET events among the first i events
RequestsUpTo(i) == Cardinality({ j \in 1..i : events[j].ev = "GET" })

\* a delay that min(initialDelay * 2^k + jitter, 30000) can take
IsBackoffOf(k, delay) ==
    LET base == config.initialDelay * (2 ^ k)
    IN  IF base >= MaxBackoff THEN delay = MaxBackoff
        ELSE delay >= base /\ delay <= base + MaxJitter /\ delay <= MaxBackoff

C18_AccumulatorIsPagesInOrder ==
    /\ (ppc = "returned" /\ fpc = "resolved") =>
           allPatients = ConcatPages(server, pageRequests)
    /\ (ppc = "await" /\ pageRequests >= 1) =>
           allPatients = ConcatPages(server, pageRequests - 1)
    /\ Settled => (result.kind = "value" /\ result.value = allPatients)

\* C19: no step changes the configuration, and lastRequestTime changes
\* only in throttle(), in the step that ends it.
C19_ConfigAndStampFrame ==
    [][/\ config' = config
       /\ lastRequestTime' # lastRequestTime => (fpc = "throttle" /\ fpc' = "get")]_vars

C19_Witness ==
    /\ fpc = "rejected" /\ backoffWaits = 2 /\ ppc = "returned"
    /\ lastRequestTime = StartTime
    /\ config = Constructor([maxRetries |-> 1, initialDelay |-> 0,
                              requestsPerSecond |-> 0, pageSize |-> 2])

\* 1000 / requestsPerSecond
MinInterval == MsPerSecond \div config.requestsPerSecond

\* C11: with one caller, two consecutive returns of throttle() are at least
\* 1000 / requestsPerSecond ms apart, whatever time passes between the calls.
C11_MinIntervalBetweenReturns ==
    thr.returns >= 2 => thr.gap >= MinInterval

C11_Witness ==
    /\ thr.returns >= 2 /\ thr.gapWaited > 0 /\ thr.gapWaited < MinInterval
    /\ thr.gap = MinInterval

\* C17: with two callers on one client, two returns of throttle() less than
\* 1000 / requestsPerSecond ms apart happen, and only when the later caller
\* read lastRequestTime before the earlier one updated it.
C17_ShortGapByStaleRead ==
    (thr.returns >= 2 /\ thr.gap < MinInterval) => thr.gapStale

\* both callers read the same lastRequestTime before either updated it, and
\* returned less than the minimum interval apart
C17_Witness ==
    /\ thr.returns >= 2 /\ thr.gap < MinInterval
    /\ thr.gapStale /\ thr.gapSameRead

\* C12: getBackoffDelay(attempt) is min(initialDelay * 2^attempt + jitter,
\* 30000): at most 30000, and within [initialDelay * 2^attempt,
\* initialDelay * 2^attempt + 1000] when that interval ends by 30000.
C12_BackoffDelayRange ==
    (fn.name = "getBackoffDelay" /\ fn.done) =>
        LET base == config.initialDelay * (2 ^ fn.a)
        IN  /\ fn.out <= 30000
            /\ fn.out = (IF base + fn.b < 30000 THEN base + fn.b ELSE 30000)
            /\ base + 1000 <= 30000 => (fn.out >= base /\ fn.out <= base + 1000)

C12_Witness ==
    /\ fn.name = "getBackoffDelay" /\ fn.done
    /\ fn.a = 3 /\ fn.b = 1 /\ config.initialDelay = DefaultInitialDelay
    /\ fn.out = 8001

\* C20: for non-null readings calculateBloodPressureRisk returns a tier in
\* 0..3, and tier 3 whenever systolic >= 140 or diastolic >= 90.
C20_BloodPressureTopTier ==
    (/\ fn.name = "calculateBloodPressureRisk" /\ fn.done
     /\ ~IsNull(fn.a) /\ ~IsNull(fn.b)) =>
        /\ fn.out \in 0..3
        /\ (fn.a >= 140 \/ fn.b >= 90) => fn.out = 3

====
